---------------------------- MODULE Spec2Model ----------------------------
(***************************************************************************)
(* Model of the asset workflows of ocean.js, src/src/ocean/Assets.ts:      *)
(*   - Assets.order  (order workflow, two concurrent invocations)          *)
(*   - Assets.create (publish workflow, one invocation)                    *)
(* The ledger (datatokens), the provider and the metadata index are        *)
(* collaborators whose code is not part of src/; their behaviour is        *)
(* modelled from spec.md sections 3 and 6 and marked so in MODEL_MAP.json. *)
(***************************************************************************)
EXTENDS Integers, Sequences, FiniteSets, TLC

(***************************************************************************)
(* Bounds of the model.                                                    *)
(***************************************************************************)
\* last instant of the ledger clock
MaxTime == 2
\* largest initial token balance of the consumer, in base units (wei)
MaxBalance == 3
\* largest price a quote carries, in base units (wei)
MaxCost == 2
\* base units per token: a scaled-down stand-in for web3's 10^18
WeiPerToken == 2
\* validity window (attributes.main.timeout) of the access service of the document
AccessTimeout == 1
\* longest list of services a caller passes to create
MaxServices == 3
\* most files the metadata passed to create declares
MaxFiles == 2
\* most edit invocations in a row
MaxEdits == 2

VARIABLES
    \* ---- ledger / environment of the order workflow
    now,            \* ledger clock
    price,          \* numTokens of the provider's quote, in wei
    ledgerBalance,  \* consumer -> balance in wei
    ledgerOrders,   \* sequence of committed orders (OrderStarted events)
    \* ---- one invocation of Assets.order per process
    opc,            \* position of the invocation
    oarg,           \* the arguments the caller passed
    olocal,         \* the local variables of the invocation
    oresult,        \* how the invocation ended
    ocalls,         \* the collaborator calls the invocation issued, in order
    ostart,         \* the invocations that had ended when this one began
    \* ---- one invocation of Assets.create
    cpc,            \* position of the invocation
    cin,            \* the arguments the caller passed
    cret,           \* what the call of create returned
    caddr,          \* the local dtAddress
    emitted,        \* the progress steps delivered to the observer, in order
    cterminal,      \* how the returned promise settled
    ddo,            \* the document the invocation built
    ccalls,         \* the collaborator calls the invocation issued, in order
    creplies,       \* what the collaborators answered to these calls, in order
    \* ---- one invocation of Assets.download
    dpc,            \* position of the invocation
    din,            \* the arguments the caller passed and the document resolved
    dcalls,         \* the collaborator calls the invocation issued, in order
    dresult,        \* how the invocation ended
    \* ---- one invocation of Assets.simpleDownload
    spc,            \* position of the invocation
    sin,            \* the arguments the caller passed
    scalls,         \* the collaborator calls the invocation issued, in order
    sresult,        \* how the invocation ended
    \* ---- the metadata index and the edit operations, one invocation at a time
    stored,         \* the document the index holds for TheDid
    edits,          \* the number of edit invocations begun so far
    epc,            \* position of the current edit invocation
    ein,            \* the operation invoked and the arguments the caller passed
    eddo,           \* the local oldDdo
    ecalls,         \* the collaborator calls the invocation issued, in order
    eresult,        \* how the invocation ended
    \* ---- one invocation of Assets.creator
    kpc,            \* position of the invocation
    klocal,         \* the local variables of the invocation
    kwarned,        \* whether logger.warn was called
    kresult,        \* how the invocation ended
    \* ---- a PoolFactory and one invocation of createPool
    factory,        \* the fields of the object
    ppc,            \* position of the invocation
    pin,            \* the argument the caller passed
    pcalls,         \* the transactions the invocation sent, in order
    plog,           \* the messages passed to logger.error, in order
    presult         \* how the invocation ended

orderVars == <<now, price, ledgerBalance, ledgerOrders,
               opc, oarg, olocal, oresult, ocalls, ostart>>

createVars == <<cpc, cin, cret, caddr, emitted, cterminal, ddo, ccalls, creplies>>

consumeVars == <<dpc, din, dcalls, dresult, spc, sin, scalls, sresult>>

editVars == <<stored, edits, epc, ein, eddo, ecalls, eresult, kpc, klocal, kwarned, kresult>>

poolVars == <<factory, ppc, pin, pcalls, plog, presult>>

\* what the actions of one workflow leave alone
notOrderVars == <<createVars, consumeVars, editVars, poolVars>>
notCreateVars == <<orderVars, consumeVars, editVars, poolVars>>
notConsumeVars == <<orderVars, createVars, editVars, poolVars>>
notEditVars == <<orderVars, createVars, consumeVars, poolVars>>
notPoolVars == <<orderVars, createVars, consumeVars, editVars>>

vars == <<orderVars, createVars, consumeVars, editVars, poolVars>>

(***************************************************************************)
(* Values.                                                                 *)
(***************************************************************************)
Procs == {1, 2}
Consumers == {"alice"}
TheDid == "did:op:A"
TheToken == "0xA"
\* JavaScript null / undefined for a transaction hash
Null == "null"
\* the absent optional value (null providerData, no order found)
None == <<>>
Some(x) == <<x>>

\* what find/forEach leave in `service` when nothing matched
UndefinedService ==
    [type |-> "undefined", index |-> -1, timeout |-> 0]

\* The AssetRecord the index resolves TheDid to: as create builds it, with
\* dense indices. Only the fields the order workflow reads are kept.
Doc ==
    << [type |-> "metadata", index |-> 0, timeout |-> 0],
       [type |-> "access",   index |-> 1, timeout |-> AccessTimeout] >>

\* arguments a caller may pass
ArgTypes == {"access", "compute"}
ArgIndices == {-1, 0, 1, 2}

(***************************************************************************)
(* Pure helpers.                                                           *)
(***************************************************************************)
\* web3.utils.fromWei: the decimal number w / WeiPerToken, as whole and
\* fractional part
FromWei(w) == [whole |-> w \div WeiPerToken, frac |-> w % WeiPerToken]

\* BigNumber.isLessThanOrEqualTo on two decimals
IsLessThanOrEqualTo(a, b) ==
    \/ a.whole < b.whole
    \/ a.whole = b.whole /\ a.frac <= b.frac

SetMax(S) == CHOOSE x \in S : \A y \in S : y <= x

\* Assets.getServiceByType: forEach overwrites `service`, so the last
\* descriptor of the type wins; undefined when none matches
GetServiceByType(services, serviceType) ==
    LET hits == {i \in 1..Len(services) : services[i].type = serviceType}
    IN  IF hits = {} THEN UndefinedService ELSE services[SetMax(hits)]

\* Assets.getServiceByIndex: the last descriptor whose index field matches
GetServiceByIndex(services, serviceIndex) ==
    LET hits == {i \in 1..Len(services) : services[i].index = serviceIndex}
    IN  IF hits = {} THEN UndefinedService ELSE services[SetMax(hits)]

(***************************************************************************)
(* The ledger (datatokens collaborator), modelled from spec.md 3 and 6.    *)
(***************************************************************************)
TxHash(n) == IF n = 1 THEN "tx1" ELSE IF n = 2 THEN "tx2" ELSE "tx3"

\* datatokens.balance: the balance as a decimal number of tokens
LedgerBalanceOf(consumer) == FromWei(ledgerBalance[consumer])

\* A receipt is reusable for the same (did, serviceIndex, consumer) and
\* amount while now < orderTimestamp + timeout.
OrderMatches(o, numTokens, did, serviceIndex, timeout, consumer) ==
    /\ o.did = did
    /\ o.serviceIndex = serviceIndex
    /\ o.consumer = consumer
    /\ o.amount = FromWei(numTokens)
    /\ now < o.ts + timeout

\* datatokens.getPreviousValidOrders: the transaction hash of the first
\* reusable order, or null
GetPreviousValidOrders(numTokens, did, serviceIndex, timeout, consumer) ==
    LET hits == {i \in 1..Len(ledgerOrders) :
                    OrderMatches(ledgerOrders[i], numTokens, did,
                                 serviceIndex, timeout, consumer)}
    IN  IF hits = {} THEN Null
        ELSE ledgerOrders[CHOOSE i \in hits : \A j \in hits : i <= j].tx

\* the amount in wei that a decimal number of tokens stands for
ToWei(d) == d.whole * WeiPerToken + d.frac

(***************************************************************************)
(* Assets.order: one invocation per process.                               *)
(***************************************************************************)
NoLocal ==
    [serviceType |-> "undefined", serviceIndex |-> -1, consumer |-> "nobody",
     providerData |-> None, timeout |-> 0, previousOrder |-> Null,
     balance |-> None, checkedAt |-> -1]

NoResult == [kind |-> "pending", value |-> Null, failure |-> "none"]

Returned(v, why) == [kind |-> "returned", value |-> v, failure |-> why]
Raised(why) == [kind |-> "raised", value |-> Null, failure |-> why]

\* no order invocation has begun
OrderIdle ==
    /\ now = 0
    /\ ledgerOrders = <<>>
    /\ opc = [p \in Procs |-> "idle"]
    /\ oarg = [p \in Procs |-> [serviceType |-> "undefined", serviceIndex |-> -1]]
    /\ olocal = [p \in Procs |-> NoLocal]
    /\ oresult = [p \in Procs |-> NoResult]
    /\ ocalls = [p \in Procs |-> <<>>]
    /\ ostart = [p \in Procs |-> {}]

OrderInit ==
    /\ price \in 1..MaxCost
    /\ ledgerBalance \in [Consumers -> 0..MaxBalance]
    /\ OrderIdle

Finish(p, r) ==
    /\ opc' = [opc EXCEPT ![p] = "done"]
    /\ oresult' = [oresult EXCEPT ![p] = r]

\* a variant that passes the caller's serviceType on, whatever the document
\* says about the descriptor with the index
ResolveService_KeepType(p, serviceType, serviceIndex, consumer) ==
    LET service == IF serviceIndex = -1
                   THEN GetServiceByType(Doc, serviceType)
                   ELSE GetServiceByIndex(Doc, serviceIndex)
    IN  /\ IF service = UndefinedService
           THEN /\ Finish(p, Raised("ServiceNotFound"))
                /\ olocal' = [olocal EXCEPT ![p].consumer = consumer]
           ELSE /\ opc' = [opc EXCEPT ![p] = "initialize"]
                /\ olocal' = [olocal EXCEPT ![p] =
                      [NoLocal EXCEPT
                         !.serviceType = serviceType,
                         !.serviceIndex = IF serviceIndex = -1 THEN service.index
                                          ELSE serviceIndex,
                         !.consumer = consumer]]
                /\ UNCHANGED oresult

\* the document has been resolved and the service is read from it (lines
\* 460-466). A descriptor that is not found leaves `service` undefined, and
\* reading service.index or service.type throws a TypeError outside the try
\* block.
ResolveService(p, serviceType, serviceIndex, consumer) ==
    LET service == IF serviceIndex = -1
                   THEN GetServiceByType(Doc, serviceType)
                   ELSE GetServiceByIndex(Doc, serviceIndex)
    IN  /\ IF service = UndefinedService
           THEN /\ Finish(p, Raised("ServiceNotFound"))
                /\ olocal' = [olocal EXCEPT ![p].consumer = consumer]
           ELSE /\ opc' = [opc EXCEPT ![p] = "initialize"]
                /\ olocal' = [olocal EXCEPT ![p] =
                      [NoLocal EXCEPT
                         !.serviceType = IF serviceIndex = -1 THEN serviceType
                                         ELSE service.type,
                         !.serviceIndex = IF serviceIndex = -1 THEN service.index
                                          ELSE serviceIndex,
                         !.consumer = consumer]]
                /\ UNCHANGED oresult

\* lines 453-464: order is called and awaits the resolve of the document
\* (getServiceByType, line 362, or getServiceByIndex, line 376)
OrderBegin(p) ==
    /\ opc[p] = "idle"
    /\ \E serviceType \in ArgTypes, serviceIndex \in ArgIndices, consumer \in Consumers :
          /\ oarg' = [oarg EXCEPT ![p] =
                        [serviceType |-> serviceType, serviceIndex |-> serviceIndex]]
          /\ olocal' = [olocal EXCEPT ![p].consumer = consumer]
    /\ ostart' = [ostart EXCEPT ![p] = {q \in Procs : opc[q] = "done"}]
    /\ opc' = [opc EXCEPT ![p] = "resolve"]
    /\ UNCHANGED <<now, price, ledgerBalance, ledgerOrders, oresult, ocalls,
                   notOrderVars>>

\* lines 362-369 / 376-383, 462 / 465: the index answered the resolve
OrderResolved(p) ==
    /\ opc[p] = "resolve"
    /\ ResolveService(p, oarg[p].serviceType, oarg[p].serviceIndex,
                      olocal[p].consumer)
    /\ UNCHANGED <<now, price, ledgerBalance, ledgerOrders, oarg, ostart, ocalls,
                   notOrderVars>>

\* the provider's answers to initialize: a quote, null, or an error
InitializeOutcomes == {"quote", "null", "throws"}

\* Assets.initialize (lines 427-442): null stays null, otherwise the parsed quote
Initialize(outcome) ==
    IF outcome = "quote"
    THEN Some([dataToken |-> TheToken, numTokens |-> price])
    ELSE None

\* line 475: if (!providerData) return null
QuoteMissing(providerData) == providerData = None

\* lines 469-476: the quote is requested; without a quote the invocation ends
\* with null, with one it awaits a second resolve of the document
OrderInitialize(p) ==
    /\ opc[p] = "initialize"
    /\ ocalls' = [ocalls EXCEPT ![p] = Append(@, "initialize")]
    /\ \E outcome \in InitializeOutcomes :
          LET providerData == Initialize(outcome)
          IN  IF outcome = "throws"
              THEN /\ Finish(p, Returned(Null, "ProviderError"))
                   /\ UNCHANGED olocal
              ELSE IF QuoteMissing(providerData)
              THEN /\ Finish(p, Returned(Null, "QuoteUnavailable"))
                   /\ UNCHANGED olocal
              ELSE /\ opc' = [opc EXCEPT ![p] = "readService"]
                   /\ olocal' = [olocal EXCEPT ![p].providerData = providerData]
                   /\ UNCHANGED oresult
    /\ UNCHANGED <<now, price, ledgerBalance, ledgerOrders, oarg, ostart, notOrderVars>>

\* lines 476 and 376-383: the index answered the second resolve; the service
\* with the index is read for its timeout
OrderServiceRead(p) ==
    /\ opc[p] = "readService"
    /\ LET service == GetServiceByIndex(Doc, olocal[p].serviceIndex)
       IN  olocal' = [olocal EXCEPT ![p].timeout = service.timeout]
    /\ opc' = [opc EXCEPT ![p] = "previousOrders"]
    /\ UNCHANGED <<now, price, ledgerBalance, ledgerOrders, oarg, oresult, ostart,
                   ocalls, notOrderVars>>

\* a variant that never takes the reuse branch
HasPreviousOrder_Ignored(previousOrder) == FALSE

\* line 485: if (previousOrder) return previousOrder
HasPreviousOrder(previousOrder) == previousOrder # Null

\* lines 477-485: the ledger is asked for a reusable order
OrderPreviousOrders(p) ==
    /\ opc[p] = "previousOrders"
    /\ ocalls' = [ocalls EXCEPT ![p] = Append(@, "getPreviousValidOrders")]
    /\ LET l == olocal[p]
           previousOrder ==
               GetPreviousValidOrders(l.providerData[1].numTokens, TheDid,
                                      l.serviceIndex, l.timeout, l.consumer)
       IN  /\ olocal' = [olocal EXCEPT ![p].previousOrder = previousOrder,
                                       ![p].checkedAt = now]
           /\ IF HasPreviousOrder(previousOrder)
              THEN Finish(p, Returned(previousOrder, "none"))
              ELSE /\ opc' = [opc EXCEPT ![p] = "balance"]
                   /\ UNCHANGED oresult
    /\ UNCHANGED <<now, price, ledgerBalance, ledgerOrders, oarg, ostart, notOrderVars>>

\* a variant that compares with isLessThan
NotEnoughFunds_Strict(balance, totalCost) ==
    ~IsLessThanOrEqualTo(totalCost, balance)

\* line 492: balance.isLessThanOrEqualTo(totalCost)
NotEnoughFunds(balance, totalCost) == IsLessThanOrEqualTo(balance, totalCost)

\* lines 486-500: the balance is read and compared with the cost
OrderBalance(p) ==
    /\ opc[p] = "balance"
    /\ ocalls' = [ocalls EXCEPT ![p] = Append(@, "balance")]
    /\ LET balance == LedgerBalanceOf(olocal[p].consumer)
           totalCost == FromWei(olocal[p].providerData[1].numTokens)
       IN  /\ olocal' = [olocal EXCEPT ![p].balance = Some(balance)]
           /\ IF NotEnoughFunds(balance, totalCost)
              THEN Finish(p, Returned(Null, "InsufficientBalance"))
              ELSE /\ opc' = [opc EXCEPT ![p] = "startOrder"]
                   /\ UNCHANGED oresult
    /\ UNCHANGED <<now, price, ledgerBalance, ledgerOrders, oarg, ostart, notOrderVars>>

\* the ledger's answers to startOrder: a receipt, a falsy value, or an error
StartOrderOutcomes == {"receipt", "null", "throws"}

\* datatokens.startOrder commits the payment: the amount leaves the
\* consumer's balance and the order is recorded with the current time
LedgerStartOrder(amount, did, serviceIndex, consumer) ==
    /\ ledgerBalance[consumer] >= ToWei(amount)
    /\ ledgerBalance' = [ledgerBalance EXCEPT ![consumer] = @ - ToWei(amount)]
    /\ ledgerOrders' = Append(ledgerOrders,
          [tx |-> TxHash(Len(ledgerOrders) + 1), did |-> did,
           serviceIndex |-> serviceIndex, consumer |-> consumer,
           amount |-> amount, ts |-> now])

\* a variant without the catch block: the ledger's error leaves order
OrderOutcome_NoCatch(outcome, transactionHash) ==
    IF outcome = "receipt" THEN Returned(transactionHash, "none")
    ELSE IF outcome = "throws" THEN Raised("LedgerTransactionFailed")
    ELSE Returned(Null, "NoReceipt")

\* a variant that hands out a transaction hash whatever the ledger answered
OrderOutcome_AlwaysHash(outcome, transactionHash) ==
    Returned(transactionHash, "none")

\* lines 509-513: the transaction hash of a receipt; a falsy receipt and a
\* caught error both end in `return null`
OrderOutcome(outcome, transactionHash) ==
    IF outcome = "receipt" THEN Returned(transactionHash, "none")
    ELSE IF outcome = "throws" THEN Returned(Null, "LedgerTransactionFailed")
    ELSE Returned(Null, "NoReceipt")

\* lines 501-513: the payment is committed
OrderStartOrder(p) ==
    /\ opc[p] = "startOrder"
    /\ ocalls' = [ocalls EXCEPT ![p] = Append(@, "startOrder")]
    /\ \E outcome \in StartOrderOutcomes :
          LET l == olocal[p]
              amount == FromWei(l.providerData[1].numTokens)
          IN  /\ IF outcome = "receipt"
                 THEN LedgerStartOrder(amount, TheDid, l.serviceIndex, l.consumer)
                 ELSE UNCHANGED <<ledgerBalance, ledgerOrders>>
              /\ Finish(p, OrderOutcome(outcome, TxHash(Len(ledgerOrders) + 1)))
    /\ UNCHANGED <<now, price, oarg, olocal, ostart, notOrderVars>>

\* the ledger clock advances
Tick ==
    /\ now < MaxTime
    /\ now' = now + 1
    /\ UNCHANGED <<price, ledgerBalance, ledgerOrders,
                   opc, oarg, olocal, oresult, ocalls, ostart, notOrderVars>>

OrderNext ==
    \/ \E p \in Procs : OrderBegin(p)
    \/ \E p \in Procs : OrderResolved(p)
    \/ \E p \in Procs : OrderInitialize(p)
    \/ \E p \in Procs : OrderServiceRead(p)
    \/ \E p \in Procs : OrderPreviousOrders(p)
    \/ \E p \in Procs : OrderBalance(p)
    \/ \E p \in Procs : OrderStartOrder(p)
    \/ Tick


(***************************************************************************)
(* Assets.create: the publish workflow, one invocation.                    *)
(***************************************************************************)
\* enum CreateProgressStep (lines 20-29)
CreatingDataToken == 0
DataTokenCreated == 1
EncryptingFiles == 2
FilesEncrypted == 3
GeneratingProof == 4
ProofGenerated == 5
StoringDdo == 6
DdoStored == 7

\* an argument that was not passed
Undefined == "undefined"
Publisher == "0xPublisher"

\* token addresses a caller may pass: none, a valid one, a malformed one
ArgAddresses == {Undefined, "0xA", "0xB", "0xbad"}
\* what datatokens.create may hand back
CreatedAddresses == {"0xB", "0xbad"}

\* web3-utils isAddress: a string of the address syntax; undefined is not
IsAddress(a) == a \in {"0xA", "0xB"}

\* JavaScript truthiness of a string argument
Truthy(a) == a # Undefined /\ a # ""

\* DID.generate: the identifier is derived from the token address alone
DidGenerate(dtAddress) == <<"did:op:", dtAddress>>

\* the file list of the metadata passed to create, n files long
FileUrl(i) == IF i = 1 THEN "https://file1" ELSE IF i = 2 THEN "https://file2"
              ELSE "https://fileN"
MetadataFiles(n) == [i \in 1..n |-> [url |-> FileUrl(i)]]

\* provider.encrypt: an opaque blob made from the did and the file list
Encrypt(did, files) == [did |-> did, files |-> files]
NoBlob == [did |-> <<>>, files |-> <<>>]

\* service descriptors a caller may pass: any type, any index value
ServiceTypes == {"metadata", "access", "compute"}
CallerIndices == {0, 2}
NoIndex == -1

\* the attributes of the caller's k-th service: payloads are pairwise
\* distinct, and a metadata descriptor of the caller carries its own file url
CallerAttributes(k, type) ==
    [origin |-> k,
     encryptedFiles |-> NoBlob,
     files |-> IF type = "metadata"
               THEN <<[index |-> 0, url |-> "https://caller"]>>
               ELSE <<>>]

CallerServices ==
    UNION { { [k \in 1..n |-> [type |-> f[k].type, index |-> f[k].index,
                               attributes |-> CallerAttributes(k, f[k].type)]] :
              f \in [1..n -> [type : ServiceTypes, index : CallerIndices]] } :
            n \in 0..MaxServices }

\* lines 139-160: the default metadata descriptor; the files keep their
\* position as index and lose their url
DefaultMetadataService(files, encryptedFiles) ==
    [type |-> "metadata",
     index |-> NoIndex,
     attributes |->
        [origin |-> 0,
         encryptedFiles |-> encryptedFiles,
         files |-> [i \in 1..Len(files) |-> [index |-> i - 1, url |-> Undefined]]]]

\* Array.prototype.reverse
Reverse(list) == [i \in 1..Len(list) |-> list[Len(list) + 1 - i]]

\* Array.prototype.findIndex on the type, 1-based
FindIndexOfType(list, type) ==
    CHOOSE i \in 1..Len(list) :
        /\ list[i].type = type
        /\ \A j \in 1..(i - 1) : list[j].type # type

\* lines 165-167: filter(({type}, i, list) => list.findIndex(t === type) === i),
\* from position i on
RECURSIVE FilterFrom(_, _)
FilterFrom(list, i) ==
    IF i > Len(list) THEN <<>>
    ELSE (IF FindIndexOfType(list, list[i].type) = i THEN <<list[i]>> ELSE <<>>)
         \o FilterFrom(list, i + 1)

\* a variant that filters nothing out
FilterFirstOfType_KeepAll(list) == list

\* lines 164-167: filter(({ type }, i, list) => findIndex(...) === i)
FilterFirstOfType(list) == FilterFrom(list, 1)

\* a variant without the two reversals: the first entry of a type wins
RemoveDuplications_FirstWins(candidates) == FilterFirstOfType(candidates)

\* lines 163-168: reverse, filter, reverse
RemoveDuplications(candidates) ==
    Reverse(FilterFirstOfType(Reverse(candidates)))

\* a variant in which a descriptor's own index survives the spread
AddIndex_KeepOwn(list) ==
    [i \in 1..Len(list) |->
        IF list[i].index = NoIndex THEN [list[i] EXCEPT !.index = i - 1]
        ELSE list[i]]

\* lines 170-173: map((_) => ({ ..._, index: indexCount++ }))
AddIndex(list) ==
    [i \in 1..Len(list) |-> [list[i] EXCEPT !.index = i - 1]]

\* lines 138-173: the service list of the new document
BuildServices(files, encryptedFiles, services) ==
    AddIndex(RemoveDuplications(
        <<DefaultMetadataService(files, encryptedFiles)>> \o services))

NoProof == [creator |-> "none", checksum |-> <<>>, signatureValue |-> <<>>]

NoDdo == [id |-> <<>>, dataToken |-> Undefined, service |-> <<>>, proof |-> NoProof]

\* a variant whose id depends on the file list as well
NewDdo_IdFromFiles(did, dtAddress, files, encryptedFiles, services) ==
    [id |-> IF files = <<>> THEN did ELSE <<"did:op:", "files">>,
     dataToken |-> dtAddress,
     service |-> BuildServices(files, encryptedFiles, services),
     proof |-> NoProof]

\* lines 122-174: new DDO({...})
NewDdo(did, dtAddress, files, encryptedFiles, services) ==
    [id |-> did,
     dataToken |-> dtAddress,
     service |-> BuildServices(files, encryptedFiles, services),
     proof |-> NoProof]

\* DDO.addProof: checksum of the document, signed by the publisher
AddProof(d, publisher) ==
    [d EXCEPT !.proof =
        [creator |-> publisher,
         checksum |-> <<d.id, d.service>>,
         signatureValue |-> <<publisher, d.id, d.service>>]]

Pending == [kind |-> "pending", value |-> "none"]
Resolved(v) == [kind |-> "resolved", value |-> v]
Rejected(why) == [kind |-> "rejected", value |-> why]

CreateInit ==
    /\ cpc = "idle"
    /\ cin = [services |-> <<>>, dtAddress |-> Undefined, files |-> <<>>]
    /\ cret = "none"
    /\ caddr = Undefined
    /\ emitted = <<>>
    /\ cterminal = Pending
    /\ ddo = NoDdo
    /\ ccalls = <<>>
    /\ creplies = <<>>

\* line 70: if (!isAddress(dtAddress))
AddressRejected(dtAddress) == ~IsAddress(dtAddress)

\* lines 61-78: the call of create. An address that isAddress rejects makes
\* create return null; otherwise a SubscribablePromise is returned.
CreateCallWith(serviceLists, addresses, fileCounts) ==
    /\ cpc = "idle"
    /\ \E services \in serviceLists, dtAddress \in addresses, n \in fileCounts :
          /\ cin' = [services |-> services, dtAddress |-> dtAddress,
                     files |-> MetadataFiles(n)]
          /\ caddr' = dtAddress
          /\ IF AddressRejected(dtAddress)
             THEN cret' = "null" /\ cpc' = "done"
             ELSE cret' = "promise" /\ cpc' = "start"
    /\ UNCHANGED <<emitted, cterminal, ddo, ccalls, creplies, notCreateVars>>

\* create called with any service list, address and file list
CreateCall == CreateCallWith(CallerServices, ArgAddresses, 0..MaxFiles)

\* a variant that asks for the encryption a second time
RequestEncrypt_Again(steps) ==
    /\ emitted' = steps \o <<EncryptingFiles>>
    /\ ccalls' = ccalls \o <<"encrypt", "encrypt">>
    /\ cpc' = "awaitEncrypt"

\* lines 108-116: the did is derived and the encryption requested
RequestEncrypt(steps) ==
    /\ emitted' = steps \o <<EncryptingFiles>>
    /\ ccalls' = Append(ccalls, "encrypt")
    /\ cpc' = "awaitEncrypt"

\* lines 79-95, 108-116: the executor runs up to its first await: the token
\* creation when no address was passed, the encryption otherwise
CreateStart ==
    /\ cpc = "start"
    /\ IF ~Truthy(caddr)
       THEN /\ emitted' = Append(emitted, CreatingDataToken)
            /\ ccalls' = Append(ccalls, "createToken")
            /\ cpc' = "awaitToken"
       ELSE RequestEncrypt(emitted)
    /\ UNCHANGED <<cin, cret, caddr, cterminal, ddo, creplies, notCreateVars>>

Settle(t) ==
    /\ cterminal' = t
    /\ cpc' = "done"

\* lines 97-106: the created address is checked; an invalid one ends the
\* workflow with null. (Not reachable while line 70 rejects an absent address.)
AfterCreateToken ==
    \E r \in CreatedAddresses \cup {"throws"} :
      /\ creplies' = Append(creplies, r)
      /\
        IF r = "throws"
        THEN /\ Settle(Rejected("LedgerError"))
             /\ UNCHANGED <<caddr, emitted, ddo, ccalls>>
        ELSE /\ caddr' = r
             /\ IF ~IsAddress(r)
                THEN /\ Settle(Resolved("null"))
                     /\ UNCHANGED <<emitted, ccalls>>
                ELSE /\ RequestEncrypt(Append(emitted, DataTokenCreated))
                     /\ UNCHANGED cterminal
             /\ UNCHANGED ddo

\* a variant that sends the document to the index before it is signed
AfterEncrypt_PublishUnsigned ==
    \E r \in {"blob", "throws"} :
      /\ creplies' = Append(creplies, r)
      /\ emitted' = emitted \o <<FilesEncrypted, StoringDdo>>
      /\ ddo' = NewDdo(DidGenerate(caddr), caddr, cin.files,
                       Encrypt(DidGenerate(caddr), cin.files), cin.services)
      /\ ccalls' = Append(ccalls, "publish")
      /\ cpc' = "awaitPublish"
      /\ UNCHANGED <<caddr, cterminal>>

\* lines 117-177: the files are encrypted, the document is built and the
\* proof requested
AfterEncrypt ==
    \E r \in {"blob", "throws"} :
      /\ creplies' = Append(creplies, r)
      /\
        IF r = "throws"
        THEN /\ Settle(Rejected("ProviderError"))
             /\ UNCHANGED <<caddr, emitted, ddo, ccalls>>
        ELSE LET did == DidGenerate(caddr)
                 encryptedFiles == Encrypt(did, cin.files)
             IN  /\ emitted' = emitted \o <<FilesEncrypted, GeneratingProof>>
                 /\ ddo' = NewDdo(did, caddr, cin.files, encryptedFiles, cin.services)
                 /\ ccalls' = Append(ccalls, "addProof")
                 /\ cpc' = "awaitProof"
                 /\ UNCHANGED <<caddr, cterminal>>

\* a variant that swallows a signing error and publishes all the same
AfterAddProof_Swallow ==
    \E r \in {"signed", "throws"} :
      /\ creplies' = Append(creplies, r)
      /\ ddo' = IF r = "signed" THEN AddProof(ddo, Publisher) ELSE ddo
      /\ emitted' = emitted \o <<ProofGenerated, StoringDdo>>
      /\ ccalls' = Append(ccalls, "publish")
      /\ cpc' = "awaitPublish"
      /\ UNCHANGED <<caddr, cterminal>>

\* lines 178-187: the proof is attached and the document sent to the index
AfterAddProof ==
    \E r \in {"signed", "throws"} :
      /\ creplies' = Append(creplies, r)
      /\
        IF r = "throws"
        THEN /\ Settle(Rejected("SigningError"))
             /\ UNCHANGED <<caddr, emitted, ddo, ccalls>>
        ELSE /\ ddo' = AddProof(ddo, Publisher)
             /\ emitted' = emitted \o <<ProofGenerated, StoringDdo>>
             /\ ccalls' = Append(ccalls, "publish")
             /\ cpc' = "awaitPublish"
             /\ UNCHANGED <<caddr, cterminal>>

\* a variant that reports DdoStored twice
StoredSteps_Twice(steps) == steps \o <<DdoStored, DdoStored>>

\* a variant that does not report DdoStored
StoredSteps_None(steps) == steps

\* lines 188-189: the step reported once publish has returned
StoredSteps(steps) == Append(steps, DdoStored)

\* a variant that does not look at what the index answered
AfterPublish_IgnoreAnswer ==
    \E r \in {"true", "false", "throws"} :
      /\ creplies' = Append(creplies, r)
      /\ emitted' = StoredSteps(emitted)
      /\ Settle(Resolved("ddo"))
      /\ UNCHANGED <<caddr, ddo, ccalls>>

\* lines 188-191: the index answered; the document or null is the result
AfterPublish ==
    \E r \in {"true", "false", "throws"} :
      /\ creplies' = Append(creplies, r)
      /\
        IF r = "throws"
        THEN /\ Settle(Rejected("IndexError"))
             /\ UNCHANGED <<caddr, emitted, ddo, ccalls>>
        ELSE /\ emitted' = StoredSteps(emitted)
             /\ Settle(Resolved(IF r = "true" THEN "ddo" ELSE "null"))
             /\ UNCHANGED <<caddr, ddo, ccalls>>

\* the awaited collaborator call returns and the executor runs on to its
\* next await or to its end
CreateResume ==
    /\ cpc \in {"awaitToken", "awaitEncrypt", "awaitProof", "awaitPublish"}
    /\ CASE cpc = "awaitToken" -> AfterCreateToken
         [] cpc = "awaitEncrypt" -> AfterEncrypt
         [] cpc = "awaitProof" -> AfterAddProof
         [] cpc = "awaitPublish" -> AfterPublish
    /\ UNCHANGED <<cin, cret, notCreateVars>>

CreateNext ==
    \/ CreateCall
    \/ CreateStart
    \/ CreateResume

(***************************************************************************)
(* The consume workflows: Assets.download and Assets.simpleDownload.       *)
(***************************************************************************)
TxIds == {"0xtx1", "0xtx2"}
Destinations == {Undefined, "/out"}
Endpoints == {"https://provider", "https://mirror"}
Accounts == {"alice", "bob"}
TokenAddresses == {"0xA", "0xB"}

\* what the index may hold for TheDid: the metadata and the access service
\* are each present or not, and the access service has an endpoint, an
\* empty one or none
ConsumeMetadata ==
    [type |-> "metadata", index |-> 0, serviceEndpoint |-> Undefined,
     files |-> <<[index |-> 0, url |-> Undefined]>>]
ConsumeAccess(endpoint) ==
    [type |-> "access", index |-> 1, serviceEndpoint |-> endpoint, files |-> <<>>]
AccessEndpoints == {"https://provider", "", Undefined}
StoredDocs ==
    {<<ConsumeMetadata, ConsumeAccess(e)>> : e \in AccessEndpoints}
        \cup {<<ConsumeMetadata>>, <<ConsumeAccess("https://provider")>>,
              <<ConsumeAccess(Undefined)>>}

\* DDO.findServiceByType: the first service of that type, None if there is none
FindServiceByType(doc, type) ==
    LET at == {i \in 1..Len(doc) : doc[i].type = type}
    IN  IF at = {} THEN None
        ELSE Some(doc[CHOOSE i \in at : \A j \in at : i <= j])

\* DDO.shortId: the did without its method prefix
ShortId(did) == IF did = "did:op:A" THEN "A" ELSE "unknown"

\* Number.prototype.toString of a service index
IndexToString(i) ==
    CASE i = 0 -> "0" [] i = 1 -> "1" [] i = 2 -> "2" [] OTHER -> "n"

\* lines 538-540: the destination directory, undefined when none was passed
DestinationPath(destination, did, index) ==
    IF Truthy(destination)
    THEN <<destination, "/datafile.", ShortId(did), ".", IndexToString(index), "/">>
    ELSE <<Undefined>>

NoRequest == <<>>
NoConsumeResult == [kind |-> "none", value |-> "none"]
ConsumeReturned(v) == [kind |-> "returned", value |-> v]
ConsumeRaised(why) == [kind |-> "raised", value |-> why]

DownloadIdle ==
    /\ dpc = "idle"
    /\ din = [did |-> TheDid, txId |-> "0xtx1", tokenAddress |-> TheToken,
              consumer |-> "alice", destination |-> Undefined, doc |-> <<>>]
    /\ dcalls = <<>>
    /\ dresult = NoConsumeResult

SimpleDownloadIdle ==
    /\ spc = "idle"
    /\ sin = [dtAddress |-> TheToken, serviceEndpoint |-> "https://provider",
              txId |-> "0xtx1", account |-> "alice"]
    /\ scalls = <<>>
    /\ sresult = NoConsumeResult

ConsumeInit == DownloadIdle /\ SimpleDownloadIdle

\* lines 517-524: download is called and asks the index for the document
DownloadCall ==
    /\ dpc = "idle"
    /\ \E txId \in TxIds, destination \in Destinations :
          din' = [din EXCEPT !.txId = txId, !.destination = destination]
    /\ dcalls' = <<[op |-> "resolve", request |-> NoRequest]>>
    /\ dpc' = "awaitResolve"
    /\ UNCHANGED <<dresult, spc, sin, scalls, sresult, notConsumeVars>>

\* a variant that never finds the endpoint missing
MissingEndpoint_Never(serviceEndpoint) == FALSE

\* line 530: if (!serviceEndpoint)
MissingEndpoint(serviceEndpoint) == ~Truthy(serviceEndpoint)

\* lines 542-551: the arguments handed to provider.download
DownloadRequest(in, service, files) ==
    [did |-> in.did, txId |-> in.txId, tokenAddress |-> in.tokenAddress,
     serviceType |-> service.type, serviceIndex |-> IndexToString(service.index),
     destination |-> DestinationPath(in.destination, in.did, service.index),
     consumer |-> in.consumer, files |-> files]

\* lines 525-551: the document arrived; the services are looked up, the
\* endpoint checked and the provider asked for the files. Destructuring the
\* result of a lookup that found nothing raises a TypeError.
AfterResolve(doc) ==
    LET metadata == FindServiceByType(doc, "metadata")
        service == FindServiceByType(doc, "access")
    IN  /\ din' = [din EXCEPT !.doc = doc]
        /\ IF metadata = None \/ service = None
           THEN /\ dresult' = ConsumeRaised("TypeError")
                /\ dpc' = "done"
                /\ UNCHANGED dcalls
           ELSE IF MissingEndpoint(service[1].serviceEndpoint)
           THEN /\ dresult' = ConsumeRaised("MissingEndpoint")
                /\ dpc' = "done"
                /\ UNCHANGED dcalls
           ELSE /\ dcalls' = Append(dcalls,
                       [op |-> "download",
                        request |-> Some(DownloadRequest(din, service[1],
                                                         metadata[1].files))])
                /\ dpc' = "awaitDownload"
                /\ UNCHANGED dresult

\* line 524: the index answers with a document, or the retrieval throws
DownloadResolved ==
    /\ dpc = "awaitResolve"
    /\ \/ \E doc \in StoredDocs : AfterResolve(doc)
       \/ /\ dresult' = ConsumeRaised("IndexError")
          /\ dpc' = "done"
          /\ UNCHANGED <<din, dcalls>>
    /\ UNCHANGED <<spc, sin, scalls, sresult, notConsumeVars>>

\* lines 542-552: the provider answered; true is returned, an error propagates
DownloadFinished ==
    /\ dpc = "awaitDownload"
    /\ \E r \in {"ok", "TransportError"} :
          dresult' = IF r = "ok" THEN ConsumeReturned("true") ELSE ConsumeRaised(r)
    /\ dpc' = "done"
    /\ UNCHANGED <<din, dcalls, spc, sin, scalls, sresult, notConsumeVars>>

\* lines 562-565: the retrieval URL
ConsumeUrl(serviceEndpoint, account, dtAddress, txId) ==
    <<serviceEndpoint, "?consumerAddress=", account,
      "&tokenAddress=", dtAddress, "&transferTxId=", txId>>

\* lines 556-569: simpleDownload is called, builds the URL and asks the
\* connector for the file
SimpleDownloadCall ==
    /\ spc = "idle"
    /\ \E dtAddress \in TokenAddresses, serviceEndpoint \in Endpoints,
          txId \in TxIds, account \in Accounts :
          /\ sin' = [dtAddress |-> dtAddress, serviceEndpoint |-> serviceEndpoint,
                     txId |-> txId, account |-> account]
          /\ scalls' = <<[op |-> "downloadFile",
                          url |-> ConsumeUrl(serviceEndpoint, account, dtAddress, txId),
                          reply |-> "pending"]>>
    /\ spc' = "awaitDownloadFile"
    /\ UNCHANGED <<sresult, dpc, din, dcalls, dresult, notConsumeVars>>

\* a variant whose catch block does not rethrow
SimpleDownloadOutcome_Swallow(r, serviceEndpoint) == ConsumeReturned(serviceEndpoint)

\* lines 568-576: the endpoint is returned; a caught error is logged and rethrown
SimpleDownloadOutcome(r, serviceEndpoint) ==
    IF r = "ok" THEN ConsumeReturned(serviceEndpoint) ELSE ConsumeRaised(r)

\* lines 568-576: the connector answered
SimpleDownloadFinished ==
    /\ spc = "awaitDownloadFile"
    /\ \E r \in {"ok", "TransportError", "HttpError"} :
          /\ sresult' = SimpleDownloadOutcome(r, sin.serviceEndpoint)
          /\ scalls' = [scalls EXCEPT ![Len(scalls)].reply = r]
    /\ spc' = "done"
    /\ UNCHANGED <<sin, dpc, din, dcalls, dresult, notConsumeVars>>

ConsumeNext ==
    \/ DownloadCall
    \/ DownloadResolved
    \/ DownloadFinished
    \/ SimpleDownloadCall
    \/ SimpleDownloadFinished

(***************************************************************************)
(* The edit operations: Assets.editMetadata, Assets.updateComputePrivacy,  *)
(* and Assets.creator, on the document the index holds.                    *)
(***************************************************************************)
\* JavaScript values of a cost: undefined, a string or a number
JsUndefined == [t |-> "undefined", s |-> "", n |-> 0]
JsString(s) == [t |-> "string", s |-> s, n |-> 0]
JsNumber(n) == [t |-> "number", s |-> "", n |-> n]

\* the truthiness of such a value: undefined, "" and 0 are falsy
JsTruthy(v) ==
    CASE v.t = "undefined" -> FALSE
      [] v.t = "string" -> v.s # ""
      [] v.t = "number" -> v.n # 0

NoAdditionalInformation == [present |-> FALSE, description |-> Undefined, links |-> Undefined]
NoPrivacy == [present |-> FALSE, allowRawAlgorithm |-> FALSE,
              allowNetworkAccess |-> FALSE, trustedAlgorithms |-> <<>>]
Privacy(raw, net, trusted) ==
    [present |-> TRUE, allowRawAlgorithm |-> raw,
     allowNetworkAccess |-> net, trustedAlgorithms |-> trusted]

\* a service descriptor with the attributes the edit operations touch
EditService(type, index, name, cost, privacy) ==
    [type |-> type, index |-> index,
     attributes |-> [name |-> name,
                     additionalInformation |-> NoAdditionalInformation,
                     cost |-> cost,
                     privacy |-> privacy]]

\* the document as create published it: metadata, access and compute
\* service with dense indices, signed by the publisher
PublishedServices ==
    << EditService("metadata", 0, "name", JsUndefined, NoPrivacy),
       EditService("access", 1, Undefined, JsString("1"), NoPrivacy),
       EditService("compute", 2, Undefined, JsString("1"),
                   Privacy(FALSE, FALSE, <<>>)) >>

PublishedDoc ==
    AddProof([id |-> DidGenerate(TheToken), dataToken |-> TheToken,
              service |-> PublishedServices, proof |-> NoProof], Publisher)

\* arguments a caller may pass to editMetadata
Titles == {Undefined, "title"}
Descriptions == {Undefined, "description"}
Links == {Undefined, "links"}
PriceIndices == {0, 1, 3}
PriceCosts == {JsUndefined, JsString(""), JsNumber(0), JsString("0"), JsString("7")}
NoServicePrices == <<>>
ServicePricesArgs ==
    {NoServicePrices}
        \cup {<<[serviceIndex |-> i, cost |-> c]>> : i \in PriceIndices, c \in PriceCosts}

\* arguments a caller may pass to updateComputePrivacy
PrivacyIndices == {0, 2, 3}
PrivacyArgs == {Privacy(TRUE, FALSE, <<"algo">>)}

NoEditArgs ==
    [op |-> "none", title |-> Undefined, description |-> Undefined,
     links |-> Undefined, servicePrices |-> NoServicePrices,
     serviceIndex |-> 0, computePrivacy |-> NoPrivacy]

NoEditResult == [kind |-> "none", value |-> "none"]
EditReturned(v) == [kind |-> "returned", value |-> v]
EditRaised(why) == [kind |-> "raised", value |-> why]

\* lines 248-257: the metadata descriptor takes the title, the description
\* and the links the caller passed; additionalInformation is created if missing
EditMetadataFields(serv, in) ==
    IF serv.type # "metadata" THEN serv
    ELSE [serv EXCEPT
            !.attributes.name = IF Truthy(in.title) THEN in.title ELSE @,
            !.attributes.additionalInformation =
                [present |-> TRUE,
                 description |-> IF Truthy(in.description) THEN in.description
                                 ELSE @.description,
                 links |-> IF Truthy(in.links) THEN in.links ELSE @.links]]

\* lines 247-258: the loop over the descriptors
WithMetadata(services, in) ==
    [i \in 1..Len(services) |-> EditMetadataFields(services[i], in)]

\* a variant that looks at the cost only
PriceApplies_CostOnly(entry) == JsTruthy(entry.cost)

\* lines 261-264: cost && serviceIndex
PriceApplies(entry) == JsTruthy(entry.cost) /\ entry.serviceIndex # 0

\* a variant that writes the entry's serviceIndex into the descriptor as well
SetCost_Reindex(services, serviceIndex, cost) ==
    [services EXCEPT ![serviceIndex + 1].attributes.cost = cost,
                     ![serviceIndex + 1].index = serviceIndex + 1]

\* lines 265-266: oldDdo.service[serviceIndex].attributes.main.cost = cost;
\* serviceIndex is a position of the list, counted from 0
SetCost(services, serviceIndex, cost) ==
    [services EXCEPT ![serviceIndex + 1].attributes.cost = cost]

\* oldDdo.service[i] is undefined: reading a property of it throws
OutOfRange(services, i) == i < 0 \/ i >= Len(services)

\* lines 259-269: an entry that applies to a missing position throws
PricesThrow(services, prices) ==
    \E k \in 1..Len(prices) :
        PriceApplies(prices[k]) /\ OutOfRange(services, prices[k].serviceIndex)

\* lines 260-268 from entry k on; the entry that throws ends the loop with
\* the costs written so far
RECURSIVE WithPricesFrom(_, _, _)
WithPricesFrom(services, prices, k) ==
    IF k > Len(prices) THEN services
    ELSE IF PriceApplies(prices[k]) /\ OutOfRange(services, prices[k].serviceIndex)
    THEN services
    ELSE WithPricesFrom(
            IF PriceApplies(prices[k])
            THEN SetCost(services, prices[k].serviceIndex, prices[k].cost)
            ELSE services,
            prices, k + 1)

\* lines 259-269: the loop over servicePrices
WithPrices(services, prices) == WithPricesFrom(services, prices, 1)

\* a variant that signs the edited document anew
EditMetadataDoc_Resigned(d, in) ==
    AddProof([d EXCEPT !.service = WithPrices(WithMetadata(d.service, in),
                                              in.servicePrices)], Publisher)

\* lines 247-269: the local oldDdo after the two loops, which editMetadata
\* submits unless the second loop threw
EditMetadataDoc(d, in) ==
    [d EXCEPT !.service = WithPrices(WithMetadata(d.service, in), in.servicePrices)]

\* a variant that takes every descriptor for a compute service
NotCompute_Never(serv) == FALSE

\* line 294: oldDdo.service[serviceIndex].type !== 'compute'
NotCompute(serv) == serv.type # "compute"

\* lines 295-300: the three privacy fields are overwritten
UpdateComputePrivacyDoc(d, serviceIndex, computePrivacy) ==
    [d EXCEPT !.service[serviceIndex + 1].attributes.privacy =
        [@ EXCEPT !.allowRawAlgorithm = computePrivacy.allowRawAlgorithm,
                  !.allowNetworkAccess = computePrivacy.allowNetworkAccess,
                  !.trustedAlgorithms = computePrivacy.trustedAlgorithms]]

\* what OnChainMetadataStore.update may answer
UpdateOutcomes == {"true", "false", "throws"}

\* the index keeps the submitted document when the update succeeds
IndexUpdate(outcome, d) == IF outcome = "true" THEN d ELSE stored

\* lines 275-276, 306-307: if (storeTx) return oldDdo else return null; an
\* error of the index leaves the operation
EditOutcome(outcome) ==
    IF outcome = "throws" THEN EditRaised("IndexError")
    ELSE EditReturned(IF outcome = "true" THEN "ddo" ELSE "null")

RetrieveCall == [op |-> "retrieveDDO", ddo |-> NoDdo, reply |-> "document"]
UpdateCall(d) == [op |-> "update", ddo |-> d, reply |-> "pending"]

EditIdle ==
    /\ stored = PublishedDoc
    /\ edits = 0
    /\ epc = "idle"
    /\ ein = NoEditArgs
    /\ eddo = NoDdo
    /\ ecalls = <<>>
    /\ eresult = NoEditResult

\* an edit invocation begins (lines 240-245, 287-293): the arguments are
\* taken and the document is asked of the index. The operations on the
\* index run one at a time, creator last.
EditBegin(in) ==
    /\ epc \in {"idle", "done"}
    /\ kpc = "idle"
    /\ edits < MaxEdits
    /\ edits' = edits + 1
    /\ ein' = in
    /\ eddo' = NoDdo
    /\ ecalls' = <<RetrieveCall>>
    /\ eresult' = NoEditResult
    /\ epc' = "awaitRetrieve"
    /\ UNCHANGED <<stored, kpc, klocal, kwarned, kresult, notEditVars>>

EditMetadataCall ==
    \E title \in Titles, description \in Descriptions, links \in Links,
       servicePrices \in ServicePricesArgs :
        EditBegin([NoEditArgs EXCEPT !.op = "editMetadata", !.title = title,
                                     !.description = description, !.links = links,
                                     !.servicePrices = servicePrices])

UpdateComputePrivacyCall ==
    \E serviceIndex \in PrivacyIndices, computePrivacy \in PrivacyArgs :
        EditBegin([NoEditArgs EXCEPT !.op = "updateComputePrivacy",
                                     !.serviceIndex = serviceIndex,
                                     !.computePrivacy = computePrivacy])

EditEnd(r) ==
    /\ eresult' = r
    /\ epc' = "done"

\* the edited document is handed to OnChainMetadataStore.update
SubmitUpdate(d) ==
    /\ eddo' = d
    /\ ecalls' = Append(ecalls, UpdateCall(d))
    /\ epc' = "awaitUpdate"
    /\ UNCHANGED eresult

\* lines 245-274: editMetadata got the document, edits it and submits it; a
\* TypeError of the loop over servicePrices leaves the operation after the
\* loop over the descriptors has edited the local document
EditMetadataRetrieved ==
    /\ epc = "awaitRetrieve"
    /\ ein.op = "editMetadata"
    /\ IF PricesThrow(stored.service, ein.servicePrices)
       THEN /\ EditEnd(EditRaised("TypeError"))
            /\ eddo' = EditMetadataDoc(stored, ein)
            /\ UNCHANGED ecalls
       ELSE SubmitUpdate(EditMetadataDoc(stored, ein))
    /\ UNCHANGED <<stored, edits, ein, kpc, klocal, kwarned, kresult, notEditVars>>

\* lines 293-305: updateComputePrivacy got the document; a descriptor that
\* is not a compute service ends the invocation with null
UpdateComputePrivacyRetrieved ==
    /\ epc = "awaitRetrieve"
    /\ ein.op = "updateComputePrivacy"
    /\ IF OutOfRange(stored.service, ein.serviceIndex)
       THEN /\ EditEnd(EditRaised("TypeError"))
            /\ eddo' = stored
            /\ UNCHANGED ecalls
       ELSE IF NotCompute(stored.service[ein.serviceIndex + 1])
       THEN /\ EditEnd(EditReturned("null"))
            /\ eddo' = stored
            /\ UNCHANGED ecalls
       ELSE SubmitUpdate(UpdateComputePrivacyDoc(stored, ein.serviceIndex,
                                                 ein.computePrivacy))
    /\ UNCHANGED <<stored, edits, ein, kpc, klocal, kwarned, kresult, notEditVars>>

\* lines 270-276, 301-307: the index answered the update
EditUpdated ==
    /\ epc = "awaitUpdate"
    /\ \E outcome \in UpdateOutcomes :
          /\ stored' = IndexUpdate(outcome, eddo)
          /\ ecalls' = [ecalls EXCEPT ![Len(ecalls)].reply = outcome]
          /\ EditEnd(EditOutcome(outcome))
    /\ UNCHANGED <<edits, ein, eddo, kpc, klocal, kwarned, kresult, notEditVars>>

\* DDO.getChecksum: the checksum of the document as it is now
GetChecksum(d) == <<d.id, d.service>>

OtherSigner == "0xOther"

\* signature.verifyText: the address that signed the text, which is the
\* publisher only if the signature was made over this text
VerifyText(checksum, signatureValue) ==
    IF signatureValue = <<signatureValue[1]>> \o checksum
    THEN signatureValue[1]
    ELSE OtherSigner

\* String.prototype.toLowerCase on the addresses of the model
ToLowerCase(a) ==
    CASE a = "0xPublisher" -> "0xpublisher"
      [] a = "0xOther" -> "0xother"
      [] OTHER -> a

\* line 321: signer.toLowerCase() !== creator.toLowerCase()
SignerMismatch(signer, creator) == ToLowerCase(signer) # ToLowerCase(creator)

NoCreatorLocal ==
    [checksum |-> <<>>, creator |-> "none", signatureValue |-> <<>>, signer |-> "none"]

CreatorIdle ==
    /\ kpc = "idle"
    /\ klocal = NoCreatorLocal
    /\ kwarned = FALSE
    /\ kresult = NoEditResult

EditInit == EditIdle /\ CreatorIdle

\* lines 315-316: creator is called and resolves the document
CreatorCall ==
    /\ kpc = "idle"
    /\ epc \in {"idle", "done"}
    /\ kpc' = "awaitResolve"
    /\ UNCHANGED <<klocal, kwarned, kresult,
                   stored, edits, epc, ein, eddo, ecalls, eresult, notEditVars>>

\* lines 316-319: the checksum and the proof are read and the signer asked for
CreatorResolved ==
    /\ kpc = "awaitResolve"
    /\ klocal' = [checksum |-> GetChecksum(stored),
                  creator |-> stored.proof.creator,
                  signatureValue |-> stored.proof.signatureValue,
                  signer |-> "none"]
    /\ kpc' = "awaitVerify"
    /\ UNCHANGED <<kwarned, kresult,
                   stored, edits, epc, ein, eddo, ecalls, eresult, notEditVars>>

\* a variant that returns null when the signer is not the creator
CreatorOutcome_NullOnMismatch(signer, creator) ==
    IF SignerMismatch(signer, creator) THEN EditReturned("null")
    ELSE EditReturned(creator)

\* line 327: return creator
CreatorOutcome(signer, creator) == EditReturned(creator)

\* lines 319-327: the signer is known (in either letter case), a mismatch is
\* logged and the creator returned; an error of verifyText leaves creator
CreatorVerified ==
    /\ kpc = "awaitVerify"
    /\ LET recovered == VerifyText(klocal.checksum, klocal.signatureValue)
       IN  \E signer \in {recovered, ToLowerCase(recovered), "throws"} :
              /\ klocal' = [klocal EXCEPT !.signer = signer]
              /\ IF signer = "throws"
                 THEN /\ kresult' = EditRaised("SignatureError")
                      /\ UNCHANGED kwarned
                 ELSE /\ kwarned' = SignerMismatch(signer, klocal.creator)
                      /\ kresult' = CreatorOutcome(signer, klocal.creator)
    /\ kpc' = "done"
    /\ UNCHANGED <<stored, edits, epc, ein, eddo, ecalls, eresult, notEditVars>>

EditNext ==
    \/ EditMetadataCall
    \/ UpdateComputePrivacyCall
    \/ EditMetadataRetrieved
    \/ UpdateComputePrivacyRetrieved
    \/ EditUpdated
    \/ CreatorCall
    \/ CreatorResolved
    \/ CreatorVerified

(***************************************************************************)
(* PoolFactory: the constructor and one invocation of createPool.          *)
(***************************************************************************)
\* line 8: public GASLIMIT_DEFAULT = 1000000
GASLIMIT_DEFAULT == 1000000

\* arguments a caller may pass to the constructor: a web3 object, null or
\* undefined; an ABI or none; an address, an empty one or none; a gas limit
\* or none (0 stands for the absent one, falsy alike)
Web3Args == {"web3", Null, Undefined}
FactoryABIArgs == {Null, "customABI"}
FactoryAddressArgs == {Null, "", "0xFactory"}
GasLimitArgs == {0, 500000}
PoolAccounts == {"0xAlice", "0xBob", "0xCarol"}

\* the truthiness of a string-valued argument that may be null or undefined
ArgTruthy(a) == a \notin {Null, Undefined, ""}

\* lines 9-30: the fields after construction. factoryAddress has no
\* initializer (line 11) and is assigned only for a truthy argument, so it
\* stays undefined otherwise.
NewPoolFactory(web3, factoryABI, factoryAddress, gaslimit) ==
    [web3 |-> web3,
     factoryABI |-> IF ArgTruthy(factoryABI) THEN factoryABI ELSE "jsonFactoryABI.abi",
     factoryAddress |-> IF ArgTruthy(factoryAddress) THEN factoryAddress ELSE Undefined,
     GASLIMIT_DEFAULT |-> IF gaslimit # 0 THEN gaslimit ELSE GASLIMIT_DEFAULT]

NoPoolResult == [kind |-> "none", value |-> "none"]
PoolReturned(v) == [kind |-> "returned", value |-> v]
PoolRaised(why) == [kind |-> "raised", value |-> why]

\* createPool has not been invoked on the factory
PoolIdle ==
    /\ ppc = "idle"
    /\ pin = [account |-> "nobody"]
    /\ pcalls = <<>>
    /\ plog = <<>>
    /\ presult = NoPoolResult

\* a factory constructed with all its arguments
PoolInit ==
    /\ factory = NewPoolFactory("web3", "customABI", "0xFactory", 0)
    /\ PoolIdle

\* line 36: this.web3 === null
Web3IsNull(f) == f.web3 = Null

\* line 41: this.factoryAddress === null
FactoryAddressIsNull(f) == f.factoryAddress = Null

\* lines 51-53: factory.methods.newBPool().send({ from, gas })
SendCall(f, account) ==
    [op |-> "newBPool.send", address |-> f.factoryAddress, from |-> account,
     gas |-> f.GASLIMIT_DEFAULT, reply |-> "pending"]

\* lines 35-53: createPool is called; the two checks, then the contract
\* object is built and the transaction sent. Reading this.web3.eth of an
\* undefined web3 throws a TypeError.
CreatePoolCall ==
    /\ ppc = "idle"
    /\ \E account \in PoolAccounts :
          /\ pin' = [account |-> account]
          /\ IF Web3IsNull(factory)
             THEN /\ plog' = Append(plog, "ERROR: Web3 object is null")
                  /\ presult' = PoolReturned(Null)
                  /\ ppc' = "done"
                  /\ UNCHANGED pcalls
             ELSE IF FactoryAddressIsNull(factory)
             THEN /\ plog' = Append(plog, "ERROR: bfactoryAddress is null")
                  /\ presult' = PoolReturned(Null)
                  /\ ppc' = "done"
                  /\ UNCHANGED pcalls
             ELSE IF factory.web3 = Undefined
             THEN /\ presult' = PoolRaised("TypeError")
                  /\ ppc' = "done"
                  /\ UNCHANGED <<pcalls, plog>>
             ELSE /\ pcalls' = Append(pcalls, SendCall(factory, account))
                  /\ ppc' = "awaitSend"
                  /\ UNCHANGED <<plog, presult>>
    /\ UNCHANGED <<factory, notPoolVars>>

\* lines 49-58: the receipt is returned; an error of the transaction is
\* caught and logged, and txid stays null
CreatePoolSent ==
    /\ ppc = "awaitSend"
    /\ \E outcome \in {"receipt", "throws"} :
          /\ pcalls' = [pcalls EXCEPT ![Len(pcalls)].reply = outcome]
          /\ IF outcome = "throws"
             THEN /\ plog' = Append(plog, "ERROR: Failed to create new pool")
                  /\ presult' = PoolReturned(Null)
             ELSE /\ presult' = PoolReturned("receipt")
                  /\ UNCHANGED plog
    /\ ppc' = "done"
    /\ UNCHANGED <<factory, pin, notPoolVars>>

PoolNext ==
    \/ CreatePoolCall
    \/ CreatePoolSent

(***************************************************************************)
(* Specifications.                                                         *)
(***************************************************************************)
\* two concurrent invocations of order on one ledger
InitOrder == OrderInit /\ CreateInit /\ ConsumeInit /\ EditInit /\ PoolInit
SpecOrder == InitOrder /\ [][OrderNext]_vars

\* one invocation of create
InitCreate ==
    /\ price = 1
    /\ ledgerBalance = [c \in Consumers |-> 0]
    /\ OrderIdle
    /\ CreateInit
    /\ ConsumeInit
    /\ EditInit
    /\ PoolInit
SpecCreate == InitCreate /\ [][CreateNext]_vars

\* one invocation of download and one of simpleDownload
InitConsume ==
    /\ price = 1
    /\ ledgerBalance = [c \in Consumers |-> 0]
    /\ OrderIdle
    /\ CreateInit
    /\ ConsumeInit
    /\ EditInit
    /\ PoolInit
SpecConsume == InitConsume /\ [][ConsumeNext]_vars

\* edit invocations one after the other and one invocation of creator
InitEdit ==
    /\ price = 1
    /\ ledgerBalance = [c \in Consumers |-> 0]
    /\ OrderIdle
    /\ CreateInit
    /\ ConsumeInit
    /\ EditInit
    /\ PoolInit
SpecEdit == InitEdit /\ [][EditNext]_vars

\* a PoolFactory constructed with any arguments, and one invocation of
\* createPool on it
InitPool ==
    /\ price = 1
    /\ ledgerBalance = [c \in Consumers |-> 0]
    /\ OrderIdle
    /\ CreateInit
    /\ ConsumeInit
    /\ EditInit
    /\ PoolIdle
    /\ \E web3 \in Web3Args, factoryABI \in FactoryABIArgs,
          factoryAddress \in FactoryAddressArgs, gaslimit \in GasLimitArgs :
          factory = NewPoolFactory(web3, factoryABI, factoryAddress, gaslimit)
SpecPool == InitPool /\ [][PoolNext]_vars

\* one invocation of create (without services of the caller's) and one of
\* order, side by side
CallsNext ==
    \/ CreateCallWith({<<>>}, ArgAddresses, {0})
    \/ CreateStart
    \/ CreateResume
    \/ OrderBegin(1)
    \/ OrderResolved(1)
    \/ OrderInitialize(1)
    \/ OrderServiceRead(1)
    \/ OrderPreviousOrders(1)
    \/ OrderBalance(1)
    \/ OrderStartOrder(1)
    \/ Tick
SpecCalls == InitOrder /\ [][CallsNext]_vars

(***************************************************************************)
(* Properties of the order workflow.                                       *)
(***************************************************************************)
Called(p, op) == \E i \in 1..Len(ocalls[p]) : ocalls[p][i] = op
CallCount(p, op) == Cardinality({i \in 1..Len(ocalls[p]) : ocalls[p][i] = op})

\* the balance and the cost an invocation compared, in wei
BalanceRead(p) == ToWei(olocal[p].balance[1])
QuoteCost(p) == olocal[p].providerData[1].numTokens

SameKey(p, q) ==
    /\ olocal[p].serviceIndex = olocal[q].serviceIndex
    /\ olocal[p].consumer = olocal[q].consumer

\* the invocation committed a payment: its startOrder returned a receipt
Paid(p) ==
    /\ Called(p, "startOrder")
    /\ oresult[p].kind = "returned"
    /\ oresult[p].value # Null

\* the order an invocation's payment recorded on the ledger
ReceiptOf(p) ==
    ledgerOrders[CHOOSE i \in 1..Len(ledgerOrders) :
                    ledgerOrders[i].tx = oresult[p].value]

\* C1: in one invocation of order, startOrder is called at most once, and
\* only as the fourth call, after initialize returned a quote,
\* getPreviousValidOrders returned no reusable order and the balance read
\* was strictly greater than the quote cost; otherwise no payment call.
C1_PaymentGuarded ==
    \A p \in Procs :
        /\ CallCount(p, "startOrder") <= 1
        /\ Called(p, "startOrder") =>
              /\ ocalls[p] = <<"initialize", "getPreviousValidOrders",
                               "balance", "startOrder">>
              /\ olocal[p].providerData # None
              /\ olocal[p].previousOrder = Null
              /\ olocal[p].balance # None
              /\ BalanceRead(p) > QuoteCost(p)

C1_Witness ==
    \E p \in Procs : Paid(p) /\ BalanceRead(p) > QuoteCost(p)

\* C2: when an invocation starts after another one for the same
\* (did, serviceIndex, consumer) returned a receipt, and makes its
\* previous-order check before that receipt's timeout has elapsed, it ends
\* with the same transaction hash and startOrder was called once in total.
C2_OrderIdempotent ==
    \A p \in Procs : \A q \in Procs \ {p} :
        ( /\ q \in ostart[p]
          /\ Paid(q)
          /\ SameKey(p, q)
          /\ opc[p] = "done"
          /\ olocal[p].checkedAt >= 0
          /\ olocal[p].checkedAt < ReceiptOf(q).ts + olocal[q].timeout )
        => /\ oresult[p].kind = "returned"
           /\ oresult[p].value = oresult[q].value
           /\ CallCount(p, "startOrder") + CallCount(q, "startOrder") = 1

C2_Witness ==
    \E p \in Procs : \E q \in Procs \ {p} :
        /\ q \in ostart[p]
        /\ Paid(q)
        /\ SameKey(p, q)
        /\ opc[p] = "done"
        /\ olocal[p].checkedAt >= 0
        /\ olocal[p].checkedAt < ReceiptOf(q).ts + olocal[q].timeout
        /\ oresult[p].value = oresult[q].value

\* two payments for the same key, the later one committed inside the reuse
\* window of the earlier one
DoublePayment(p, q) ==
    /\ p # q
    /\ Paid(p) /\ Paid(q)
    /\ SameKey(p, q)
    /\ oresult[q].value = ledgerOrders[1].tx
    /\ oresult[p].value = ledgerOrders[2].tx
    /\ ledgerOrders[2].ts < ledgerOrders[1].ts + olocal[q].timeout

\* C3: two payments for the same (did, serviceIndex, consumer) inside the
\* reuse window come only from invocations that overlapped: neither began
\* after the other had returned, both saw no reusable order and both read
\* a balance greater than the cost. (That such a state is reachable is
\* C3_Witness: at most one startOrder per key is not an invariant.)
C3_DoublePaymentByOverlap ==
    \A p \in Procs : \A q \in Procs :
        DoublePayment(p, q) =>
            /\ q \notin ostart[p] /\ p \notin ostart[q]
            /\ olocal[p].previousOrder = Null /\ olocal[q].previousOrder = Null
            /\ BalanceRead(p) > QuoteCost(p) /\ BalanceRead(q) > QuoteCost(q)

C3_Witness ==
    \E p \in Procs : \E q \in Procs : DoublePayment(p, q)

\* C4: an invocation that read a balance equal to the quote cost ends with
\* null and never calls startOrder; one that read the cost plus one unit
\* goes on to startOrder.
C4_BalanceBoundary ==
    \A p \in Procs :
        olocal[p].balance # None =>
            /\ BalanceRead(p) = QuoteCost(p) =>
                  /\ opc[p] = "done"
                  /\ oresult[p] = Returned(Null, "InsufficientBalance")
                  /\ ~Called(p, "startOrder")
            /\ BalanceRead(p) = QuoteCost(p) + 1 =>
                  \/ opc[p] = "startOrder"
                  \/ Called(p, "startOrder")

C4_Witness ==
    \E p \in Procs : \E q \in Procs :
        /\ olocal[p].balance # None /\ olocal[q].balance # None
        /\ BalanceRead(p) = QuoteCost(p)
        /\ oresult[p] = Returned(Null, "InsufficientBalance")
        /\ BalanceRead(q) = QuoteCost(q) + 1
        /\ Called(q, "startOrder")

\* C5: ServiceNotFound, QuoteUnavailable and InsufficientBalance all end
\* the invocation with a returned null, never with a raised error.
C5_FailuresReturnAbsent ==
    \A p \in Procs :
        oresult[p].failure \in {"ServiceNotFound", "QuoteUnavailable",
                                "InsufficientBalance"}
        => oresult[p].kind = "returned" /\ oresult[p].value = Null

\* C6 as stated: an error thrown by startOrder leaves order as a raised error.
C6_LedgerFailureRaised ==
    \A p \in Procs :
        oresult[p].failure = "LedgerTransactionFailed"
        => oresult[p].kind = "raised"

\* C6, amended: an error thrown by startOrder is caught inside order, which
\* returns null; the caller sees no error.
C6_LedgerFailureReturnsNull ==
    \A p \in Procs :
        oresult[p].failure = "LedgerTransactionFailed"
        => oresult[p].kind = "returned" /\ oresult[p].value = Null

C6_Witness ==
    \E p \in Procs :
        /\ opc[p] = "done"
        /\ Called(p, "startOrder")
        /\ oresult[p].failure = "LedgerTransactionFailed"

\* C22: with an explicit index the type handed to initialize is the type of
\* the document's descriptor with that index, whatever type the caller
\* passed; without one (-1) the index handed on is that of the document's
\* descriptor of the requested type.
C22_TypeReadBack ==
    \A p \in Procs :
        Called(p, "initialize") =>
            /\ \E i \in 1..Len(Doc) :
                  /\ Doc[i].type = olocal[p].serviceType
                  /\ Doc[i].index = olocal[p].serviceIndex
            /\ IF oarg[p].serviceIndex = -1
               THEN olocal[p].serviceType = oarg[p].serviceType
               ELSE olocal[p].serviceIndex = oarg[p].serviceIndex

\* the caller asked for type access and index 0; initialize got metadata
C22_Witness ==
    \E p \in Procs :
        /\ Called(p, "initialize")
        /\ oarg[p] = [serviceType |-> "access", serviceIndex |-> 0]
        /\ olocal[p].serviceType = "metadata"
        /\ olocal[p].serviceIndex = 0

\* C25: when getPreviousValidOrders hands back an order, the invocation
\* ends with that order as its result, without a balance read and without
\* startOrder; the consumer's balance plays no part.
C25_ReuseSkipsBalance ==
    \A p \in Procs :
        olocal[p].previousOrder # Null =>
            /\ opc[p] = "done"
            /\ oresult[p] = Returned(olocal[p].previousOrder, "none")
            /\ ~Called(p, "balance")
            /\ ~Called(p, "startOrder")

\* an order was reused although the consumer's balance does not exceed the
\* quoted cost
C25_Witness ==
    \E p \in Procs :
        /\ opc[p] = "done"
        /\ olocal[p].previousOrder # Null
        /\ oresult[p].value = olocal[p].previousOrder
        /\ ledgerBalance[olocal[p].consumer] <= QuoteCost(p)

OnLedger(tx) == \E i \in 1..Len(ledgerOrders) : ledgerOrders[i].tx = tx

\* C26: an invocation returns a transaction hash only if
\* getPreviousValidOrders handed it that order or its startOrder returned
\* the receipt, and the hash is that of an order recorded on the ledger.
C26_ResultIsPayment ==
    \A p \in Procs :
        (oresult[p].kind = "returned" /\ oresult[p].value # Null) =>
            /\ OnLedger(oresult[p].value)
            /\ \/ oresult[p].value = olocal[p].previousOrder
               \/ Called(p, "startOrder") /\ olocal[p].previousOrder = Null

\* one invocation paid and another one got the same hash by reuse
C26_Witness ==
    \E p \in Procs, q \in Procs :
        /\ p # q
        /\ opc[p] = "done" /\ opc[q] = "done"
        /\ Called(p, "startOrder") /\ oresult[p].value # Null
        /\ ~Called(q, "startOrder") /\ oresult[q].value = oresult[p].value

(***************************************************************************)
(* Properties of the publish workflow.                                     *)
(***************************************************************************)
AllSteps ==
    <<CreatingDataToken, DataTokenCreated, EncryptingFiles, FilesEncrypted,
      GeneratingProof, ProofGenerated, StoringDdo, DdoStored>>

\* no collaborator call of the invocation failed: nothing was thrown and
\* neither the created address nor the index answer made the result null
NoCollaboratorFailed ==
    cterminal.kind # "rejected" /\ cterminal # Resolved("null")

StrictlyIncreasing(steps) ==
    \A i \in 1..Len(steps) : \A j \in 1..Len(steps) : i < j => steps[i] < steps[j]

\* C7: an invocation of create without a token address whose collaborators
\* all succeed ends with the 8 steps, once each and in order, and with the
\* published document as the terminal value.
C7_FreshPublishAllSteps ==
    (cpc = "done" /\ cin.dtAddress = Undefined /\ NoCollaboratorFailed)
    => emitted = AllSteps /\ cterminal = Resolved("ddo")

\* C8: the steps delivered are strictly increasing in the order of
\* CreateProgressStep (so none is delivered twice), none is delivered once
\* the promise has settled, and with a valid token address passed and no
\* failing collaborator they are EncryptingFiles .. DdoStored followed by
\* the document.
C8_StepsOrdered ==
    /\ [](StrictlyIncreasing(emitted))
    /\ []((cpc = "done" /\ IsAddress(cin.dtAddress) /\ NoCollaboratorFailed)
            => /\ emitted = <<EncryptingFiles, FilesEncrypted, GeneratingProof,
                              ProofGenerated, StoringDdo, DdoStored>>
               /\ cterminal = Resolved("ddo")
               /\ ddo.proof # NoProof)
    /\ [][cterminal # Pending => emitted' = emitted]_vars

C8_Witness ==
    /\ cpc = "done"
    /\ IsAddress(cin.dtAddress)
    /\ cterminal = Resolved("ddo")
    /\ emitted = <<EncryptingFiles, FilesEncrypted, GeneratingProof,
                   ProofGenerated, StoringDdo, DdoStored>>

\* the candidate sequence [default metadata service, ...caller services]
Candidates ==
    <<DefaultMetadataService(cin.files, Encrypt(DidGenerate(caddr), cin.files))>>
    \o cin.services

FirstPos(list, type) ==
    CHOOSE i \in 1..Len(list) :
        list[i].type = type /\ \A j \in 1..Len(list) : list[j].type = type => i <= j
LastPos(list, type) ==
    CHOOSE i \in 1..Len(list) :
        list[i].type = type /\ \A j \in 1..Len(list) : list[j].type = type => j <= i

\* one descriptor per type of the candidates, each with the content of the
\* last candidate of its type
OnePerTypeLastContent(result, candidates) ==
    /\ {result[i].type : i \in 1..Len(result)}
         = {candidates[i].type : i \in 1..Len(candidates)}
    /\ \A i \in 1..Len(result) : \A j \in 1..Len(result) :
          result[i].type = result[j].type => i = j
    /\ \A i \in 1..Len(result) :
          result[i].attributes
            = candidates[LastPos(candidates, result[i].type)].attributes

\* C9 as stated: per type one descriptor survives, with the content of the
\* last entry of the type, placed where the first entry of the type stood.
C9_DedupFirstPosition ==
    ddo # NoDdo =>
        /\ OnePerTypeLastContent(ddo.service, Candidates)
        /\ \A i \in 1..Len(ddo.service) : \A j \in 1..Len(ddo.service) :
              i < j => FirstPos(Candidates, ddo.service[i].type)
                         < FirstPos(Candidates, ddo.service[j].type)

\* C9, amended: per type one descriptor survives, with the content of the
\* last entry of the type, and the survivors stand in the order of these
\* last entries.
C9_DedupLastPosition ==
    ddo # NoDdo =>
        /\ OnePerTypeLastContent(ddo.service, Candidates)
        /\ \A i \in 1..Len(ddo.service) : \A j \in 1..Len(ddo.service) :
              i < j => LastPos(Candidates, ddo.service[i].type)
                         < LastPos(Candidates, ddo.service[j].type)

\* candidates of types [metadata, access, metadata] become
\* [access, metadata (payload of position 2)] with the indices 0 and 1
C9_Witness ==
    /\ ddo # NoDdo
    /\ Len(cin.services) = 2
    /\ cin.services[1].type = "access" /\ cin.services[2].type = "metadata"
    /\ Len(ddo.service) = 2
    /\ ddo.service[1].type = "access" /\ ddo.service[1].index = 0
    /\ ddo.service[2].type = "metadata" /\ ddo.service[2].index = 1
    /\ ddo.service[2].attributes = cin.services[2].attributes

\* C10: the descriptors of a built document carry the indices 0..n-1, each
\* equal to the descriptor's position, whatever index the caller had set.
C10_DenseIndices ==
    ddo # NoDdo =>
        \A i \in 1..Len(ddo.service) : ddo.service[i].index = i - 1

\* a caller's descriptor with index 2 ends up at position 1 with index 1
C10_Witness ==
    /\ ddo # NoDdo
    /\ Len(cin.services) = 1
    /\ cin.services[1].type = "access" /\ cin.services[1].index = 2
    /\ Len(ddo.service) = 2
    /\ ddo.service[2].type = "access" /\ ddo.service[2].index = 1

\* the descriptors of type metadata in a service list
MetadataAt(services) == {i \in 1..Len(services) : services[i].type = "metadata"}

\* C11: every document create builds holds exactly one descriptor of type
\* metadata, whatever service list the caller passed.
C11_OneMetadata ==
    ddo # NoDdo => Cardinality(MetadataAt(ddo.service)) = 1

\* the caller passed two metadata descriptors of their own and the document
\* built holds one
C11_Witness ==
    /\ ddo # NoDdo
    /\ Cardinality(MetadataAt(cin.services)) >= 2
    /\ Cardinality(MetadataAt(ddo.service)) = 1

CreateCalled(op) == \E i \in 1..Len(ccalls) : ccalls[i] = op
CreateCallCount(op) == Cardinality({i \in 1..Len(ccalls) : ccalls[i] = op})
\* what the collaborator answered to the call op, "none" while it has not
CreateReply(op) ==
    LET at == {i \in 1..Len(creplies) : ccalls[i] = op}
    IN  IF at = {} THEN "none" ELSE creplies[CHOOSE i \in at : TRUE]

\* C12: in every document create sends to the index the metadata descriptor
\* carries the blob the provider made of the files and none of its file
\* entries carries a url, also when the caller's list holds a metadata
\* descriptor with file urls.
C12_NoCleartextPublished ==
    CreateCalled("publish") =>
        \A i \in MetadataAt(ddo.service) :
            /\ ddo.service[i].attributes.encryptedFiles
                  = Encrypt(DidGenerate(caddr), cin.files)
            /\ \A f \in 1..Len(ddo.service[i].attributes.files) :
                  ddo.service[i].attributes.files[f].url = Undefined

\* C13: when addProof throws the promise is rejected with that error, no
\* ProofGenerated or later step is delivered and publish is never called.
C13_SigningFailureStopsPublish ==
    CreateReply("addProof") = "throws" =>
        /\ cterminal = Rejected("SigningError")
        /\ ~CreateCalled("publish")
        /\ \A i \in 1..Len(emitted) : emitted[i] < ProofGenerated

C13_Witness ==
    /\ cpc = "done"
    /\ CreateReply("addProof") = "throws"
    /\ CreateReply("encrypt") = "blob"
    /\ ddo # NoDdo

PublishFailed == CreateReply("publish") \in {"false", "throws"}
\* publish was the last collaborator call and the invocation is over
NothingAfterPublish ==
    /\ cpc = "done"
    /\ CreateCallCount("publish") = 1
    /\ ccalls[Len(ccalls)] = "publish"

\* C14 as stated: when publish returns false or throws after the earlier
\* steps succeeded, the terminal value is null and no collaborator is
\* called any more.
C14_PublishFailureIsNull ==
    PublishFailed => cterminal = Resolved("null") /\ NothingAfterPublish

\* C14, amended: when publish returns false the terminal value is null;
\* when publish throws the promise is rejected with that error; in both
\* cases no collaborator is called any more.
C14_PublishFailureNullOrRejected ==
    /\ CreateReply("publish") = "false" => cterminal = Resolved("null")
    /\ CreateReply("publish") = "throws" => cterminal = Rejected("IndexError")
    /\ PublishFailed => NothingAfterPublish

\* publish threw after encrypt and addProof had succeeded
C14_Witness ==
    /\ cpc = "done"
    /\ creplies = <<"blob", "signed", "throws">>
    /\ cterminal = Rejected("IndexError")

\* C16: a supplied address that is not valid makes create fail with no step
\* delivered and no collaborator called; an invocation without an address
\* passes the check and goes on to create the token.
C16_AddressPrecondition ==
    /\ (cpc # "idle" /\ Truthy(cin.dtAddress) /\ ~IsAddress(cin.dtAddress))
          => (cret = "null" /\ cpc = "done" /\ emitted = <<>> /\ ccalls = <<>>)
    /\ (cpc # "idle" /\ cin.dtAddress = Undefined)
          => (cret = "promise" /\ (cpc # "start" => CreateCalled("createToken")))

IsPrefix(a, b) == Len(a) <= Len(b) /\ \A i \in 1..Len(a) : a[i] = b[i]

\* C17: the collaborator calls are createToken (if any), encrypt, addProof,
\* publish in this order, each issued once the one before has returned;
\* encrypt is issued only with a valid token address at hand and publish
\* only with the proof attached.
C17_CallsSequential ==
    /\ \/ IsPrefix(ccalls, <<"encrypt", "addProof", "publish">>)
       \/ IsPrefix(ccalls, <<"createToken", "encrypt", "addProof", "publish">>)
    /\ Len(creplies) <= Len(ccalls) /\ Len(ccalls) <= Len(creplies) + 1
    /\ \A i \in 1..Len(creplies) : i < Len(ccalls) => creplies[i] # "throws"
    /\ CreateCalled("encrypt") => IsAddress(caddr)
    /\ CreateCalled("publish") => ddo.proof # NoProof

C17_Witness ==
    /\ cpc = "awaitPublish"
    /\ ccalls = <<"encrypt", "addProof", "publish">>
    /\ creplies = <<"blob", "signed">>
    /\ ddo.proof # NoProof

CreateOps == {"createToken", "encrypt", "addProof", "publish"}
OrderOps == {"initialize", "getPreviousValidOrders", "balance", "startOrder"}

\* C18: one invocation of create calls createToken, encrypt, addProof and
\* publish at most once each, createToken not at all when a token address
\* was passed; one invocation of order calls initialize,
\* getPreviousValidOrders, balance and startOrder at most once each. A call
\* that failed is not repeated.
C18_NoRetry ==
    /\ \A op \in CreateOps : CreateCallCount(op) <= 1
    /\ IsAddress(cin.dtAddress) => ~CreateCalled("createToken")
    /\ \A p \in Procs : \A op \in OrderOps : CallCount(p, op) <= 1

\* both invocations are over, each after the failure of its last call
C18_Witness ==
    /\ cpc = "done"
    /\ ccalls = <<"encrypt", "addProof", "publish">>
    /\ creplies = <<"blob", "signed", "false">>
    /\ opc[1] = "done"
    /\ ocalls[1] = <<"initialize", "getPreviousValidOrders", "balance", "startOrder">>
    /\ oresult[1].failure = "LedgerTransactionFailed"

ValidAddresses == {a \in ArgAddresses \cup CreatedAddresses : IsAddress(a)}

\* C24: the id of a built document is the DID derived from the token
\* address and from nothing else, the DID of any other token address
\* differs from it, and dataToken is the address the DID was derived from.
C24_DidFromTokenAddress ==
    ddo # NoDdo =>
        /\ ddo.dataToken = caddr
        /\ caddr = cin.dtAddress
        /\ ddo.id = DidGenerate(ddo.dataToken)
        /\ \A a \in ValidAddresses : a # ddo.dataToken => DidGenerate(a) # ddo.id

\* a document for the second token address, with files and a caller's service
C24_Witness ==
    /\ ddo # NoDdo
    /\ cin.dtAddress = "0xB"
    /\ Len(cin.files) = MaxFiles
    /\ Len(cin.services) >= 1
    /\ ddo.id = <<"did:op:", "0xB">>

\* C27: DdoStored is delivered whenever publish returns, whatever it
\* returns: when the index reports failure the steps end with StoringDdo,
\* DdoStored and the terminal value is null.
C27_StoredBeforeResult ==
    CreateReply("publish") \in {"true", "false"} =>
        /\ Len(emitted) >= 2
        /\ emitted[Len(emitted) - 1] = StoringDdo
        /\ emitted[Len(emitted)] = DdoStored
        /\ cterminal = Resolved(IF CreateReply("publish") = "true" THEN "ddo" ELSE "null")

C27_Witness ==
    /\ cpc = "done"
    /\ creplies = <<"blob", "signed", "false">>
    /\ emitted[Len(emitted)] = DdoStored
    /\ cterminal = Resolved("null")

(***************************************************************************)
(* Properties of the consume workflows.                                    *)
(***************************************************************************)
\* the document has an access service without a usable serviceEndpoint
AccessWithoutEndpoint(doc) ==
    /\ FindServiceByType(doc, "access") # None
    /\ FindServiceByType(doc, "access")[1].serviceEndpoint \in {Undefined, ""}

DownloadRequested == \E i \in 1..Len(dcalls) : dcalls[i].op = "download"

\* C19: download on a document whose access service has no serviceEndpoint
\* ends with a raised error and provider.download is not called; with the
\* metadata service present the error is the missing-endpoint one.
C19_EndpointPrecondition ==
    AccessWithoutEndpoint(din.doc) =>
        /\ dpc = "done"
        /\ dresult.kind = "raised"
        /\ ~DownloadRequested
        /\ FindServiceByType(din.doc, "metadata") # None
              => dresult = ConsumeRaised("MissingEndpoint")

C19_Witness ==
    /\ dpc = "done"
    /\ AccessWithoutEndpoint(din.doc)
    /\ dresult = ConsumeRaised("MissingEndpoint")
    /\ dcalls = <<[op |-> "resolve", request |-> NoRequest]>>

\* C20: simpleDownload resolves no document and issues exactly one request,
\* for the URL made of the endpoint, the consumer, the token address and
\* the transaction id; it returns the endpoint when the request succeeded
\* and raises the request's error when it threw.
C20_SimpleDownload ==
    /\ \A i \in 1..Len(scalls) : scalls[i].op # "resolve"
    /\ spc # "idle" =>
          /\ Len(scalls) = 1
          /\ scalls[1].op = "downloadFile"
          /\ scalls[1].url = <<sin.serviceEndpoint, "?consumerAddress=", sin.account,
                               "&tokenAddress=", sin.dtAddress,
                               "&transferTxId=", sin.txId>>
    /\ spc = "done" =>
          IF scalls[1].reply = "ok"
          THEN sresult = ConsumeReturned(sin.serviceEndpoint)
          ELSE sresult = ConsumeRaised(scalls[1].reply)

C20_Witness ==
    /\ spc = "done"
    /\ scalls[1].reply = "HttpError"
    /\ sresult = ConsumeRaised("HttpError")
    /\ sin.account = "bob" /\ sin.dtAddress = "0xB"

(***************************************************************************)
(* Properties of the edit operations and of creator.                       *)
(***************************************************************************)
\* what an edit must leave alone: id, token address, and the type and the
\* index of every descriptor, in order
Layout(d) ==
    [id |-> d.id, dataToken |-> d.dataToken,
     shape |-> [i \in 1..Len(d.service) |-> <<d.service[i].type, d.service[i].index>>]]

UpdateCalls == {i \in 1..Len(ecalls) : ecalls[i].op = "update"}

\* C21: after any sequence of editMetadata and updateComputePrivacy
\* invocations the document of the index, and every document submitted to
\* it, has the id, the token address and the descriptors' number, order,
\* types and indices of the published document.
C21_EditKeepsLayout ==
    /\ Layout(stored) = Layout(PublishedDoc)
    /\ \A i \in UpdateCalls : Layout(ecalls[i].ddo) = Layout(PublishedDoc)

\* a cost edit followed by a privacy edit, both stored
C21_Witness ==
    /\ edits = 2
    /\ stored.service[2].attributes.cost = JsString("7")
    /\ stored.service[3].attributes.privacy.allowRawAlgorithm
    /\ stored.service # PublishedServices

\* C28: the edit operations request no signature and leave the proof as it
\* is: the proof stored and every proof submitted is the one made at
\* publish time, over the document as it then was.
C28_ProofUnchanged ==
    /\ stored.proof = PublishedDoc.proof
    /\ stored.proof.checksum = GetChecksum(PublishedDoc)
    /\ \A i \in 1..Len(ecalls) : ecalls[i].op \in {"retrieveDDO", "update"}
    /\ \A i \in UpdateCalls : ecalls[i].ddo.proof = PublishedDoc.proof

\* the stored document was changed and its proof no longer fits it
C28_Witness ==
    /\ stored.service # PublishedServices
    /\ stored.proof.checksum # GetChecksum(stored)
    /\ stored.proof.creator = Publisher

PriceIgnored(entry) == entry.serviceIndex = 0 \/ ~JsTruthy(entry.cost)
\* the entries of the invocation that name list position i and are not ignored
PricesFor(i) ==
    {k \in 1..Len(ein.servicePrices) :
        ~PriceIgnored(ein.servicePrices[k]) /\ ein.servicePrices[k].serviceIndex + 1 = i}

\* C29: editMetadata writes the cost of a servicePrices entry to the
\* descriptor at list position serviceIndex when cost and serviceIndex are
\* both truthy; an entry with serviceIndex 0 or a falsy cost changes no
\* cost, and the update is submitted all the same.
C29_ServicePrices ==
    (ein.op = "editMetadata" /\ epc \in {"awaitUpdate", "done"}) =>
        /\ (\A k \in 1..Len(ein.servicePrices) : PriceIgnored(ein.servicePrices[k]))
              => UpdateCalls # {}
        /\ epc = "awaitUpdate" =>
              \A i \in 1..Len(eddo.service) :
                  eddo.service[i].attributes.cost =
                      IF PricesFor(i) = {} THEN stored.service[i].attributes.cost
                      ELSE ein.servicePrices[SetMax(PricesFor(i))].cost

\* an entry for serviceIndex 0 with a cost: nothing changes, the update is
\* submitted
C29_Witness ==
    /\ ein.op = "editMetadata"
    /\ epc = "awaitUpdate"
    /\ ein.servicePrices = <<[serviceIndex |-> 0, cost |-> JsString("7")]>>
    /\ \A i \in 1..Len(eddo.service) :
          eddo.service[i].attributes.cost = stored.service[i].attributes.cost
    /\ UpdateCalls # {}

\* the invocation named an existing descriptor that is not a compute service
PrivacyOfNonCompute ==
    /\ ein.op = "updateComputePrivacy"
    /\ epc = "done"
    /\ ~OutOfRange(stored.service, ein.serviceIndex)
    /\ stored.service[ein.serviceIndex + 1].type # "compute"

UpdateReply == ecalls[Len(ecalls)].reply

RejectsNonCompute ==
    PrivacyOfNonCompute =>
        /\ eresult = EditReturned("null")
        /\ eddo = stored
        /\ UpdateCalls = {}

\* C30: updateComputePrivacy on a descriptor that is not a compute service
\* returns null with the document unchanged and no update call; either
\* operation returns the edited document, which the index then holds, when
\* the update returns true, and null when it returns false.
C30_EditResult ==
    /\ RejectsNonCompute
    /\ (epc = "done" /\ UpdateCalls # {} /\ UpdateReply = "true")
          => (eresult = EditReturned("ddo") /\ stored = eddo)
    /\ (epc = "done" /\ UpdateCalls # {} /\ UpdateReply = "false")
          => eresult = EditReturned("null")

\* updateComputePrivacy asked for the metadata descriptor
C30_Witness ==
    /\ PrivacyOfNonCompute
    /\ ein.serviceIndex = 0
    /\ eresult = EditReturned("null")
    /\ ecalls = <<RetrieveCall>>

\* C23: creator returns the creator recorded in the proof, whether the
\* recovered signer matches it or not; a mismatch is only logged.
C23_CreatorWarnsOnly ==
    (kpc = "done" /\ klocal.signer # "throws") =>
        /\ kresult = EditReturned(klocal.creator)
        /\ klocal.creator = stored.proof.creator
        /\ kwarned <=> ToLowerCase(klocal.signer) # ToLowerCase(klocal.creator)

\* the document was edited, so the signer recovered is not the creator
C23_Witness ==
    /\ kpc = "done"
    /\ kwarned
    /\ klocal.signer = OtherSigner
    /\ kresult = EditReturned(Publisher)

(***************************************************************************)
(* Properties of PoolFactory.createPool.                                   *)
(***************************************************************************)
\* the factory has no web3 object, or no factory address
WithoutWeb3 == factory.web3 \in {Null, Undefined}
WithoutFactoryAddress == factory.factoryAddress \in {Null, Undefined}

\* C31: on a factory constructed without a web3 object or without a factory
\* address createPool sends no transaction, logs an error and returns null;
\* and a transaction that fails makes it return null, not raise.
C31_CreatePoolGuards ==
    /\ (ppc # "idle" /\ (WithoutWeb3 \/ WithoutFactoryAddress)) =>
          /\ pcalls = <<>>
          /\ ppc = "done"
          /\ plog # <<>>
          /\ presult = PoolReturned(Null)
    /\ (ppc = "done" /\ pcalls # <<>> /\ pcalls[Len(pcalls)].reply = "throws") =>
          presult = PoolReturned(Null)

=============================================================================
